---------------------------- MODULE Spec2Model ----------------------------
(***************************************************************************)
(* A model of ctle's status_return<_StatusType,_ValueType>                 *)
(* (src/ctle/status_return.h) and of the call-site macros of               *)
(* src/include/ctle/_macros.inl: the leveled log opener, ctValidate,       *)
(* ctSanityCheck, ctStatusCall, ctStatusReturnCall, ctStatusAutoReturnCall *)
(* and ctStatusCallThrow.                                                  *)
(*                                                                         *)
(* The state is that of one thread running a chain of nested calls.  A     *)
(* callee returns (flow = "returned", ret is what it returned); the call   *)
(* site of its caller then handles ret with one of the macros, and either  *)
(* goes on with the caller's next statement (flow = "running"), makes the  *)
(* caller return in turn (flow = "returned" again, one frame further up)   *)
(* or throws (flow = "thrown").  The variable last records the macro that  *)
(* ran last, what it was given and what it did.                            *)
(*                                                                         *)
(* The logging subsystem (log_level, get_global_log_level, log_msg) and    *)
(* ctle::status / ctle::status_error are not part of the two source files; *)
(* what the model needs of them is taken from the specification.           *)
(***************************************************************************)
EXTENDS Integers, Sequences, FiniteSets

\* ------------------------------------------------------------------ bounds

\* status codes are 0..MaxStatus
MaxStatus == 2
\* payload values are 0..MaxValue
MaxValue == 2
\* the number of call sites one failure is followed through
MaxDepth == 3

\* ------------------------------------------- external collaborators (spec)

\* ctle::log_level, ordered error < warning < info < debug < verbose
error == 0
warning == 1
info == 2
debug == 3
verbose == 4
Levels == error..verbose

\* what get_global_log_level() can return: one of the levels
GlobalLogLevels == Levels

\* a threshold under which no level, not even error, is enabled
BelowError == error - 1
\* the levels and the threshold below them all
AnyThreshold == BelowError..verbose

\* ctle::status: one success code and the failure codes
StatusOk == 0
Statuses == 0..MaxStatus
\* !status : true of every status but the success code
Failed(s) == s # StatusOk

\* the payload type _ValueType
Values == 0..MaxValue

\* the text of the expressions handed to ctSanityCheck (#statement)
Statements == {"n > 0", "p != nullptr"}

\* ------------------------------------------------ status_return.h (general)

\* _StatusType sstatus = {};
DefaultStatus == 0
\* _ValueType svalue = {};
DefaultValue == 0

\* status_return( _StatusType _status ) : sstatus(_status) {}
status_return_s(_status) == [sstatus |-> _status, svalue |-> DefaultValue]

\* status_return( _StatusType _status, const _ValueType &_value ) and the && form
status_return_sv(_status, _value) == [sstatus |-> _status, svalue |-> _value]

\* mutant: the bare value initialises the status as well
status_return_v_AlsoStatus(_value) == [sstatus |-> _value, svalue |-> _value]

\* status_return( const _ValueType &_value ) and the && form
status_return_v(_value) == [sstatus |-> DefaultStatus, svalue |-> _value]

\* status_return( const status_return &other ) = default; and the && form
status_return_copy(other) == [sstatus |-> other.sstatus, svalue |-> other.svalue]

\* _StatusType status() const
status(this) == this.sstatus

\* _ValueType &value()
value(this) == this.svalue

\* operator bool() const { return this->sstatus; }  (truthy = not failed)
operator_bool(this) == ~Failed(this.sstatus)

\* the constructor forms of the general implementation
Ctors == {"s", "sv", "v"}

\* the object a return statement builds with constructor form c, then copied
\* (or moved) out to the caller
Construct(c, s, v) ==
    status_return_copy(
        CASE c = "s"  -> status_return_s(s)
          [] c = "sv" -> status_return_sv(s, v)
          [] c = "v"  -> status_return_v(v))

\* --------------------------------------------------------------- _macros.inl

\* mutant: the comparison is strict
ctLogLevel_Strict(msg_level, threshold) == msg_level < threshold

\* ctLogLevel's guard: if( ctle::log_level::msg_level <= ctle::get_global_log_level() )
ctLogLevel(msg_level, threshold) == msg_level <= threshold

\* ctLogLevel( msg_level ) << message << ctLogEnd : the entries created and
\* the number of times the message expressions are evaluated
LogStatement(msg_level, threshold) ==
    IF ctLogLevel(msg_level, threshold)
    THEN [entries |-> <<msg_level>>, msgEvals |-> 1]
    ELSE [entries |-> <<>>, msgEvals |-> 0]

\* The places where a macro's call argument appears in its expansion:
\* "init" initialises a variable from it, "stringize" is #arg, "decltype" is
\* decltype( arg ).  Only the first evaluates the argument.
Evaluations(uses) == Cardinality({i \in DOMAIN uses : uses[i] = "init"})

\* ctStatusCall( s ): ctle::status _ctle_call_status = (s); ... << #s << ...
ctStatusCallUses == <<"init", "stringize">>

\* ctStatusReturnCall( retval , scall ): auto _ctle_call_statuspair = (scall); ... << #scall
ctStatusReturnCallUses == <<"init", "stringize">>

\* mutant: the variable is declared from the call's value, auto retval = (scall).value()
ctStatusAutoReturnCallUses_InitDecl == <<"init">> \o ctStatusReturnCallUses

\* ctStatusAutoReturnCall: decltype( scall )::value_type retval; ctStatusReturnCall( retval, scall )
ctStatusAutoReturnCallUses == <<"decltype">> \o ctStatusReturnCallUses

\* ctStatusCallThrow( s ): ctle::status _ctle_call_status = (s); ... << #s << ...
ctStatusCallThrowUses == <<"init", "stringize">>

NoExc == [type |-> "none"]

\* mutant: the status is returned as the truth value of its test, return !_ctle_call_status
ctStatusCall_ReturnsTest(s, prior, threshold) ==
    IF Failed(s)
    THEN LET l == LogStatement(error, threshold)
         IN  [flow |-> "return", status |-> 1, retval |-> prior,
              logged |-> l.entries, msgEvals |-> l.msgEvals,
              evals |-> Evaluations(ctStatusCallUses), exc |-> NoExc]
    ELSE [flow |-> "continue", status |-> s, retval |-> prior,
          logged |-> <<>>, msgEvals |-> 0,
          evals |-> Evaluations(ctStatusCallUses), exc |-> NoExc]

\* ctStatusCall( s ), the call having returned status s; prior is the value
\* of the enclosing function's local variable, which the macro does not name
ctStatusCall(s, prior, threshold) ==
    IF Failed(s)
    THEN LET l == LogStatement(error, threshold)
         IN  [flow |-> "return", status |-> s, retval |-> prior,
              logged |-> l.entries, msgEvals |-> l.msgEvals,
              evals |-> Evaluations(ctStatusCallUses), exc |-> NoExc]
    ELSE [flow |-> "continue", status |-> s, retval |-> prior,
          logged |-> <<>>, msgEvals |-> 0,
          evals |-> Evaluations(ctStatusCallUses), exc |-> NoExc]

\* mutant: retval is assigned before the status is tested
ctStatusReturnCall_AssignsFirst(pair, prior, threshold) ==
    IF Failed(status(pair))
    THEN LET l == LogStatement(error, threshold)
         IN  [flow |-> "return", status |-> status(pair), retval |-> value(pair),
              logged |-> l.entries, msgEvals |-> l.msgEvals,
              evals |-> Evaluations(ctStatusReturnCallUses), exc |-> NoExc]
    ELSE [flow |-> "continue", status |-> status(pair), retval |-> value(pair),
          logged |-> <<>>, msgEvals |-> 0,
          evals |-> Evaluations(ctStatusReturnCallUses), exc |-> NoExc]

\* mutant: a failure is returned without a log statement
ctStatusReturnCall_Silent(pair, prior, threshold) ==
    IF Failed(status(pair))
    THEN [flow |-> "return", status |-> status(pair), retval |-> prior,
          logged |-> <<>>, msgEvals |-> 0,
          evals |-> Evaluations(ctStatusReturnCallUses), exc |-> NoExc]
    ELSE [flow |-> "continue", status |-> status(pair), retval |-> value(pair),
          logged |-> <<>>, msgEvals |-> 0,
          evals |-> Evaluations(ctStatusReturnCallUses), exc |-> NoExc]

\* ctStatusReturnCall( retval , scall ), the call having returned the
\* status_return object pair; prior is retval's value before the macro
ctStatusReturnCall(pair, prior, threshold) ==
    IF Failed(status(pair))
    THEN LET l == LogStatement(error, threshold)
         IN  [flow |-> "return", status |-> status(pair), retval |-> prior,
              logged |-> l.entries, msgEvals |-> l.msgEvals,
              evals |-> Evaluations(ctStatusReturnCallUses), exc |-> NoExc]
    ELSE [flow |-> "continue", status |-> status(pair), retval |-> value(pair),
          logged |-> <<>>, msgEvals |-> 0,
          evals |-> Evaluations(ctStatusReturnCallUses), exc |-> NoExc]

\* ctStatusAutoReturnCall( retval , scall ): retval is declared first, with
\* the value its default initialisation leaves (declared: indeterminate for a
\* scalar), then ctStatusReturnCall( retval, scall )
ctStatusAutoReturnCall(pair, declared, threshold) ==
    [ctStatusReturnCall(pair, declared, threshold)
        EXCEPT !.evals = Evaluations(ctStatusAutoReturnCallUses)]

\* mutant: the body of ctStatusCall, which returns where this macro throws
ctStatusCallThrow_Returns(s, prior, threshold) == ctStatusCall(s, prior, threshold)

\* ctStatusCallThrow( s ), the call having returned status s
ctStatusCallThrow(s, prior, threshold) ==
    IF Failed(s)
    THEN LET l == LogStatement(error, threshold)
         IN  [flow |-> "throw", status |-> s, retval |-> prior,
              logged |-> l.entries, msgEvals |-> l.msgEvals,
              evals |-> Evaluations(ctStatusCallThrowUses),
              exc |-> [type |-> "status_error", status |-> s]]
    ELSE [flow |-> "continue", status |-> s, retval |-> prior,
          logged |-> <<>>, msgEvals |-> 0,
          evals |-> Evaluations(ctStatusCallThrowUses), exc |-> NoExc]

\* mutant: the error code is evaluated before the statement is tested
ctValidate_CodeFirst(statement, code, prior, threshold) ==
    IF ~statement
    THEN LET l == LogStatement(error, threshold)
         IN  [flow |-> "return", status |-> code, retval |-> prior,
              logged |-> l.entries, msgEvals |-> l.msgEvals,
              codeEvals |-> 1, exc |-> NoExc]
    ELSE [flow |-> "continue", status |-> StatusOk, retval |-> prior,
          logged |-> <<>>, msgEvals |-> 0,
          codeEvals |-> 1, exc |-> NoExc]

\* mutant: ctValidateEnd returns inside the log statement's block
ctValidate_ReturnInLogBlock(statement, code, prior, threshold) ==
    IF ~statement
    THEN LET l == LogStatement(error, threshold)
         IN  [flow |-> IF l.entries # <<>> THEN "return" ELSE "continue",
              status |-> code, retval |-> prior,
              logged |-> l.entries, msgEvals |-> l.msgEvals,
              codeEvals |-> 1, exc |-> NoExc]
    ELSE [flow |-> "continue", status |-> StatusOk, retval |-> prior,
          logged |-> <<>>, msgEvals |-> 0,
          codeEvals |-> 0, exc |-> NoExc]

\* ctValidate( statement , error_code_on_error ) << message << ctValidateEnd
\* statement is the value of the checked expression, code the value of
\* error_code_on_error; codeEvals counts the evaluations of the latter
ctValidate(statement, code, prior, threshold) ==
    IF ~statement
    THEN LET l == LogStatement(error, threshold)
         IN  [flow |-> "return", status |-> code, retval |-> prior,
              logged |-> l.entries, msgEvals |-> l.msgEvals,
              codeEvals |-> 1, exc |-> NoExc]
    ELSE [flow |-> "continue", status |-> StatusOk, retval |-> prior,
          logged |-> <<>>, msgEvals |-> 0,
          codeEvals |-> 0, exc |-> NoExc]

\* mutant: the message names the place but not the expression
SanityCheckMessage_NoText(text) ==
    <<"SanityCheck failed in ", "__FILE__", " line ", "__LINE__",
      " function ", "_CTLE_FUNCTION_SIGNATURE">>

\* the std::string handed to std::runtime_error by ctSanityCheck
SanityCheckMessage(text) ==
    <<"SanityCheck ", text, " failed in ", "__FILE__", " line ", "__LINE__",
      " function ", "_CTLE_FUNCTION_SIGNATURE">>

\* ctSanityCheck( statement ): text is #statement, statement the value the
\* expression has (or would have), ndebug whether NDEBUG is defined;
\* stmtEvals counts the evaluations of the expression
ctSanityCheck(text, statement, ndebug, prior, threshold) ==
    IF ndebug
    THEN [flow |-> "continue", status |-> StatusOk, retval |-> prior,
          logged |-> <<>>, msgEvals |-> 0, stmtEvals |-> 0, exc |-> NoExc]
    ELSE IF ~statement
         THEN LET l == LogStatement(error, threshold)
              IN  [flow |-> "throw", status |-> StatusOk, retval |-> prior,
                   logged |-> l.entries, msgEvals |-> l.msgEvals, stmtEvals |-> 1,
                   exc |-> [type |-> "runtime_error", what |-> SanityCheckMessage(text)]]
         ELSE [flow |-> "continue", status |-> StatusOk, retval |-> prior,
               logged |-> <<>>, msgEvals |-> 0, stmtEvals |-> 1, exc |-> NoExc]

\* the return types of an enclosing function: ctle::status, or a
\* status_return whose _StatusType is ctle::status
ReturnKinds == {"status", "pair"}

\* return _ctle_call_status; / return _ctle_error_code; : the status,
\* converted to the enclosing function's return type
ReturnAs(kind, s) ==
    IF kind = "status"
    THEN [kind |-> "status", status |-> s]
    ELSE [kind |-> "pair", pair |-> status_return_copy(status_return_s(s))]

NoRet == [kind |-> "none"]

\* ------------------------------------------------------------------- state

VARIABLES
    threshold,    \* the global log level, get_global_log_level()
    ndebug,       \* whether the build defines NDEBUG
    flow,         \* "running" | "returned" | "thrown"
    ret,          \* what the function that returned last returned
    exc,          \* the exception in flight
    retval,       \* the local variable a value-receiving macro assigns
    sites,        \* the macros that have handled the failure in flight
    failureLogs,  \* the log entries made for the failure in flight
    last          \* the macro or statement that ran last

vars == <<threshold, ndebug, flow, ret, exc, retval, sites, failureLogs, last>>

\* the inputs a statement does not have
NoInput ==
    [s |-> StatusOk, v |-> DefaultValue, c |-> "none", b |-> TRUE,
     text |-> "", level |-> error, declared |-> DefaultValue]

InitWith(thresholds) ==
    /\ threshold \in thresholds
    /\ ndebug \in BOOLEAN
    /\ flow = "running"
    /\ ret = NoRet
    /\ exc = NoExc
    /\ retval \in Values
    /\ sites = 0
    /\ failureLogs = 0
    /\ last = [op |-> "none", threshold |-> threshold, prior |-> retval,
               in |-> NoInput, out |-> [flow |-> "continue"]]

Init == InitWith(GlobalLogLevels)

\* What a macro's outcome out does to the state: kind is the return type of
\* the function the macro stands in.
Effect(op, in, out, kind) ==
    /\ flow' = CASE out.flow = "continue" -> "running"
                 [] out.flow = "return"   -> "returned"
                 [] out.flow = "throw"    -> "thrown"
    /\ ret' = IF out.flow = "return" THEN ReturnAs(kind, out.status) ELSE NoRet
    /\ exc' = out.exc
    /\ retval' = out.retval
    /\ sites' = IF out.flow = "continue" THEN 0 ELSE sites + 1
    /\ failureLogs' = IF out.flow = "continue" THEN 0
                      ELSE failureLogs + Len(out.logged)
    /\ last' = [op |-> op, threshold |-> threshold, prior |-> retval,
                in |-> in, out |-> out]
    /\ UNCHANGED <<threshold, ndebug>>

\* ----------------------------------------------------------------- actions

\* A function that uses no macro returns a status_return built with
\* constructor form c: a failure, if it is one, originates here.
Return ==
    /\ flow = "running"
    /\ \E c \in Ctors, s \in Statuses, v \in Values :
         /\ ret' = [kind |-> "pair", pair |-> Construct(c, s, v)]
         /\ last' = [op |-> "return", threshold |-> threshold, prior |-> retval,
                     in |-> [NoInput EXCEPT !.c = c, !.s = s, !.v = v],
                     out |-> [flow |-> "return"]]
    /\ flow' = "returned"
    /\ sites' = 0
    /\ failureLogs' = 0
    /\ UNCHANGED <<threshold, ndebug, exc, retval>>

\* A function that uses no macro returns a plain ctle::status.
ReturnStatus ==
    /\ flow = "running"
    /\ \E s \in Statuses :
         /\ ret' = [kind |-> "status", status |-> s]
         /\ last' = [op |-> "return_status", threshold |-> threshold,
                     prior |-> retval, in |-> [NoInput EXCEPT !.s = s],
                     out |-> [flow |-> "return"]]
    /\ flow' = "returned"
    /\ sites' = 0
    /\ failureLogs' = 0
    /\ UNCHANGED <<threshold, ndebug, exc, retval>>

\* ctStatusCall( callee() ) at the call site the callee returned to
StatusCall ==
    /\ flow = "returned"
    /\ ret.kind = "status"
    /\ sites < MaxDepth
    /\ \E kind \in ReturnKinds :
         Effect("ctStatusCall", [NoInput EXCEPT !.s = ret.status],
                ctStatusCall(ret.status, retval, threshold), kind)

\* ctStatusReturnCall( retval, callee() )
StatusReturnCall ==
    /\ flow = "returned"
    /\ ret.kind = "pair"
    /\ sites < MaxDepth
    /\ \E kind \in ReturnKinds :
         Effect("ctStatusReturnCall",
                [NoInput EXCEPT !.s = status(ret.pair), !.v = value(ret.pair)],
                ctStatusReturnCall(ret.pair, retval, threshold), kind)

\* ctStatusAutoReturnCall( retval, callee() )
StatusAutoReturnCall ==
    /\ flow = "returned"
    /\ ret.kind = "pair"
    /\ sites < MaxDepth
    /\ \E kind \in ReturnKinds, declared \in Values :
         Effect("ctStatusAutoReturnCall",
                [NoInput EXCEPT !.s = status(ret.pair), !.v = value(ret.pair),
                                !.declared = declared],
                ctStatusAutoReturnCall(ret.pair, declared, threshold), kind)

\* ctStatusCallThrow( callee() )
StatusCallThrow ==
    /\ flow = "returned"
    /\ ret.kind = "status"
    /\ sites < MaxDepth
    /\ Effect("ctStatusCallThrow", [NoInput EXCEPT !.s = ret.status],
              ctStatusCallThrow(ret.status, retval, threshold), "status")

\* ctValidate( statement, code ) << ... << ctValidateEnd
Validate ==
    /\ flow = "running"
    /\ \E b \in BOOLEAN, code \in Statuses, kind \in ReturnKinds :
         Effect("ctValidate", [NoInput EXCEPT !.b = b, !.s = code],
                ctValidate(b, code, retval, threshold), kind)

\* ctSanityCheck( statement )
SanityCheck ==
    /\ flow = "running"
    /\ \E text \in Statements, b \in BOOLEAN :
         Effect("ctSanityCheck", [NoInput EXCEPT !.b = b, !.text = text],
                ctSanityCheck(text, b, ndebug, retval, threshold), "status")

\* ctLogError/ctLogWarning/ctLogInfo/ctLogDebug/ctLogVerbose << ... << ctLogEnd
\* (ctLogThis is the statement at level info)
Log ==
    /\ flow = "running"
    /\ \E level \in Levels :
         LET l == LogStatement(level, threshold)
         IN  Effect("ctLog", [NoInput EXCEPT !.level = level],
                    [flow |-> "continue", status |-> StatusOk, retval |-> retval,
                     logged |-> l.entries, msgEvals |-> l.msgEvals, exc |-> NoExc],
                    "status")

\* The caller takes what the callee returned without a macro: the chain of
\* propagation ends here.
TopLevel ==
    /\ flow = "returned"
    /\ flow' = "running"
    /\ ret' = NoRet
    /\ sites' = 0
    /\ failureLogs' = 0
    /\ last' = [op |-> "none", threshold |-> threshold, prior |-> retval,
                in |-> NoInput, out |-> [flow |-> "continue"]]
    /\ UNCHANGED <<threshold, ndebug, exc, retval>>

\* A handler somewhere up the stack catches the exception in flight.
Catch ==
    /\ flow = "thrown"
    /\ flow' = "running"
    /\ exc' = NoExc
    /\ sites' = 0
    /\ failureLogs' = 0
    /\ last' = [op |-> "none", threshold |-> threshold, prior |-> retval,
                in |-> NoInput, out |-> [flow |-> "continue"]]
    /\ UNCHANGED <<threshold, ndebug, ret, retval>>

\* set_global_log_level( t ), by this or another part of the program
SetGlobalLogLevelIn(thresholds) ==
    /\ \E t \in thresholds : threshold' = t
    /\ UNCHANGED <<ndebug, flow, ret, exc, retval, sites, failureLogs, last>>

SetGlobalLogLevel == SetGlobalLogLevelIn(GlobalLogLevels)

\* the threshold set to any value, one below error included
SetAnyThreshold == SetGlobalLogLevelIn(AnyThreshold)

Step ==
    \/ Return
    \/ ReturnStatus
    \/ StatusCall
    \/ StatusReturnCall
    \/ StatusAutoReturnCall
    \/ StatusCallThrow
    \/ Validate
    \/ SanityCheck
    \/ Log
    \/ TopLevel
    \/ Catch

Next == Step \/ SetGlobalLogLevel

Spec == Init /\ [][Next]_vars

\* The same program with the threshold ranging over AnyThreshold.
InitAnyThreshold == InitWith(AnyThreshold)

NextAnyThreshold == Step \/ SetAnyThreshold

SpecAnyThreshold == InitAnyThreshold /\ [][NextAnyThreshold]_vars

\* ------------------------------------------------------------------ claims

\* the status a returned object carries
RetStatus(r) == IF r.kind = "status" THEN r.status ELSE status(r.pair)

\* the objects "return s" can hand to the caller: s itself, or s alone in a
\* status_return
StatusOnly(s) == {ReturnAs(kind, s) : kind \in ReturnKinds}

\* C1: ctStatusCall on a failing status s makes the enclosing function return
\* exactly s at once (nothing after the macro runs) and produces exactly one
\* failure log entry; on a success status it produces no log entry and
\* execution goes on with the statement after the macro.
C1_StatusCall ==
    last.op = "ctStatusCall" =>
        IF Failed(last.in.s)
        THEN /\ flow = "returned"
             /\ RetStatus(ret) = last.in.s
             /\ last.out.logged = <<error>>
        ELSE /\ flow = "running"
             /\ last.out.logged = <<>>

C1_Witness ==
    /\ last.op = "ctStatusCall"
    /\ Failed(last.in.s)
    /\ last.in.s # 1
    /\ flow = "returned"
    /\ RetStatus(ret) = last.in.s
    /\ Len(last.out.logged) = 1

\* C2: ctStatusReturnCall into an existing variable with prior value p, the
\* call having returned (s, v): if s fails the variable still equals p and the
\* enclosing function returns s, the status part only; if s is a success the
\* variable equals v and the function does not return early.
C2_StatusReturnCall ==
    last.op = "ctStatusReturnCall" =>
        IF Failed(last.in.s)
        THEN /\ retval = last.prior
             /\ flow = "returned"
             /\ ret \in StatusOnly(last.in.s)
        ELSE /\ retval = last.in.v
             /\ flow = "running"
             /\ ret = NoRet

C2_Witness ==
    /\ last.op = "ctStatusReturnCall"
    /\ Failed(last.in.s)
    /\ last.in.v # last.prior
    /\ retval = last.prior
    /\ flow = "returned"

\* C3 (as claimed): a failure forwarded upward through call sites that each
\* use a propagation macro is logged at most once in total.
C3_LoggedAtMostOnce ==
    flow \in {"returned", "thrown"} => failureLogs <= 1

\* C3 (amended): every macro that handles the failure in flight logs it, once
\* each: after n such call sites the failure has been logged n times.
C3_LoggedAtEverySite ==
    flow \in {"returned", "thrown"} => failureLogs = sites

C3_Witness ==
    /\ flow = "returned"
    /\ Failed(RetStatus(ret))
    /\ sites = 2
    /\ failureLogs = 2
    /\ last.op \in {"ctStatusCall", "ctStatusReturnCall", "ctStatusAutoReturnCall"}

\* C4: ctStatusCallThrow on a failing status s logs an error and throws a
\* status_error carrying exactly s, and the enclosing function does not also
\* return; on a success status nothing is thrown, nothing is logged and
\* execution goes on.
C4_StatusCallThrow ==
    last.op = "ctStatusCallThrow" =>
        IF Failed(last.in.s)
        THEN /\ last.out.logged = <<error>>
             /\ flow = "thrown"
             /\ exc = [type |-> "status_error", status |-> last.in.s]
             /\ ret = NoRet
        ELSE /\ flow = "running"
             /\ exc = NoExc
             /\ last.out.logged = <<>>

C4_Witness ==
    /\ last.op = "ctStatusCallThrow"
    /\ Failed(last.in.s)
    /\ flow = "thrown"
    /\ exc.type = "status_error"
    /\ exc.status = last.in.s

\* C5: ctValidate on an expression that is false logs an error and makes the
\* enclosing function return exactly the supplied error code at once; on one
\* that is true nothing is logged, neither the error code nor the message is
\* evaluated, and execution goes on after the guard.
C5_Validate ==
    last.op = "ctValidate" =>
        IF ~last.in.b
        THEN /\ last.out.logged = <<error>>
             /\ flow = "returned"
             /\ RetStatus(ret) = last.in.s
        ELSE /\ last.out.logged = <<>>
             /\ last.out.codeEvals = 0
             /\ last.out.msgEvals = 0
             /\ flow = "running"

C5_Witness ==
    /\ last.op = "ctValidate"
    /\ ~last.in.b
    /\ Failed(last.in.s)
    /\ flow = "returned"
    /\ RetStatus(ret) = last.in.s
    /\ Len(last.out.logged) = 1

\* C6: in a debug build ctSanityCheck on a false expression logs an error and
\* throws a runtime error whose message contains the text of the expression,
\* and on a true one has no effect; in a release build it does nothing: the
\* expression is not evaluated, nothing is logged, nothing is thrown.
C6_SanityCheck ==
    last.op = "ctSanityCheck" =>
        IF ndebug
        THEN /\ last.out.stmtEvals = 0
             /\ last.out.logged = <<>>
             /\ flow = "running"
             /\ exc = NoExc
        ELSE IF ~last.in.b
             THEN /\ last.out.logged = <<error>>
                  /\ flow = "thrown"
                  /\ exc.type = "runtime_error"
                  /\ \E i \in DOMAIN exc.what : exc.what[i] = last.in.text
             ELSE /\ last.out.logged = <<>>
                  /\ flow = "running"
                  /\ exc = NoExc

C6_Witness ==
    /\ last.op = "ctSanityCheck"
    /\ ~ndebug
    /\ ~last.in.b
    /\ flow = "thrown"
    /\ exc.type = "runtime_error"
    /\ \E i \in DOMAIN exc.what : exc.what[i] = last.in.text

\* C7: a log statement at level L creates a log entry, and evaluates its
\* message, if and only if L is less than or equal to the global threshold
\* read when the statement runs; otherwise no entry is created and the
\* message is not evaluated.
C7_LogLevel ==
    last.op = "ctLog" =>
        /\ last.out.logged =
             IF last.in.level <= last.threshold THEN <<last.in.level>> ELSE <<>>
        /\ last.out.msgEvals = Len(last.out.logged)

C7_Witness ==
    /\ last.op = "ctLog"
    /\ last.in.level = last.threshold
    /\ last.in.level # error
    /\ last.out.logged = <<last.in.level>>
    /\ last.out.msgEvals = 1

\* C8: a status_return built from (s, v) has status() = s and value() = v;
\* built from a bare status s it has status() = s and a default value; built
\* from a bare value v it has value() = v and a default status; and the copy
\* handed to the caller has the status() and value() of the original.
C8_Accessors ==
    last.op = "return" =>
        /\ status(ret.pair) = IF last.in.c = "v" THEN DefaultStatus ELSE last.in.s
        /\ value(ret.pair) = IF last.in.c = "s" THEN DefaultValue ELSE last.in.v

C8_Witness ==
    /\ last.op = "return"
    /\ last.in.c = "v"
    /\ last.in.v # DefaultValue
    /\ last.in.v # DefaultStatus
    /\ value(ret.pair) = last.in.v
    /\ status(ret.pair) = DefaultStatus

\* C9: whatever the global log threshold is, one below the error level
\* included, a failure detected by ctStatusCall, ctStatusReturnCall,
\* ctStatusAutoReturnCall, ctStatusCallThrow, ctValidate or (debug build)
\* ctSanityCheck causes the same early return of the same status, or the same
\* exception; the threshold decides only whether the log entry is produced.
C9_ThresholdIndependent ==
    /\ ( /\ last.op \in {"ctStatusCall", "ctStatusReturnCall", "ctStatusAutoReturnCall"}
         /\ Failed(last.in.s) )
       => flow = "returned" /\ RetStatus(ret) = last.in.s
    /\ (last.op = "ctStatusCallThrow" /\ Failed(last.in.s))
       => flow = "thrown" /\ exc = [type |-> "status_error", status |-> last.in.s]
    /\ (last.op = "ctValidate" /\ ~last.in.b)
       => flow = "returned" /\ RetStatus(ret) = last.in.s
    /\ (last.op = "ctSanityCheck" /\ ~ndebug /\ ~last.in.b)
       => flow = "thrown" /\ exc.type = "runtime_error"
    /\ flow \in {"returned", "thrown"} /\ last.op \notin {"return", "return_status"}
       => Len(last.out.logged) = IF error <= last.threshold THEN 1 ELSE 0

C9_Witness ==
    /\ last.op = "ctValidate"
    /\ ~last.in.b
    /\ Failed(last.in.s)
    /\ last.threshold = BelowError
    /\ last.out.logged = <<>>
    /\ flow = "returned"
    /\ RetStatus(ret) = last.in.s

\* C10: each run of ctStatusCall, ctStatusReturnCall, ctStatusAutoReturnCall
\* or ctStatusCallThrow evaluates the call exactly once, whether it fails or
\* succeeds; the auto-declared form, which names the call twice, evaluates it
\* once too and otherwise does what the existing-variable form does to the
\* variable it declared.
C10_SingleEvaluation ==
    /\ last.op \in {"ctStatusCall", "ctStatusReturnCall",
                    "ctStatusAutoReturnCall", "ctStatusCallThrow"}
       => last.out.evals = 1
    /\ last.op = "ctStatusAutoReturnCall"
       => IF Failed(last.in.s)
          THEN /\ retval = last.in.declared
               /\ flow = "returned"
               /\ ret \in StatusOnly(last.in.s)
               /\ last.out.logged = <<error>>
          ELSE /\ retval = last.in.v
               /\ flow = "running"
               /\ last.out.logged = <<>>

C10_Witness ==
    /\ last.op = "ctStatusAutoReturnCall"
    /\ ~Failed(last.in.s)
    /\ last.in.v # last.in.declared
    /\ last.out.evals = 1
    /\ retval = last.in.v
    /\ flow = "running"

============================================================================
